---- MODULE Spec2Model ----
(***************************************************************************)
(* Arena-indexed recursive trees (recursive_tree/arena_eval.rs) with the   *)
(* linked-list and file-tree examples.                                     *)
(*                                                                         *)
(* A layer is a record [tag, kids]: kids maps the layer's child slots      *)
(* (the keys of the HashMap of a Dir, slot 1 of a Cons) to whatever stands *)
(* for a child at that stage: a seed, an ArenaIndex, a reduced value.      *)
(* Positions and arena indices are 0-based as in the source; the element   *)
(* at position i of a store is elems[i + 1].                               *)
(***************************************************************************)
EXTENDS Integers, Sequences, FiniteSets, TLC

VARIABLES
    gen,        \* the generator handed to expand: seed -> layer of seeds
    frontier,   \* VecDeque of pending seeds
    elems,      \* the store's elements (layers whose children are indices)
    seedOf,     \* history: seedOf[i + 1] is the seed elems[i + 1] came from
    calls,      \* history: the seeds the generator was invoked with, in order
    pc,         \* position of the running call
    enq,        \* history: every seed pushed on the frontier, in push order
    failAt,     \* the generation steps (0-based) whose future yields Err
    pending,    \* the generation futures in flight
    yields,     \* history: what each completed future yielded, in order
    outcome,    \* what the asynchronous build resolved to
    alg,        \* the reducer handed to collapse
    view,       \* the slice of elems a borrowing collapse runs on, and its offset
    results,    \* the scratch array of the running collapse
    it,         \* elements the reversed iterator has not yielded yet
    log,        \* history: the reducer's invocations in order: the position, and
                \* for collapse_layers_2 also the layer received and the value returned
    tainted,    \* history: a slot that held no value was read as if it did
    ret         \* the value the collapse returned

expandVars == <<gen, frontier, elems, seedOf, calls, enq>>

asyncVars == <<failAt, pending, yields, outcome>>

collapseVars == <<alg, view, results, it, log, tainted, ret>>

vars == <<gen, frontier, elems, seedOf, calls, pc, enq, failAt, pending, yields,
          outcome, alg, view, results, it, log, tainted, ret>>

\* ---------------------------------------------------------------- bounds
MaxSeed == 3
MaxNames == 2
MaxNodes == 5
MaxFailStep == 3
MaxStore == 3
MaxRefs == 3
MaxStr == 3

Seeds == 1..MaxSeed
Names == 1..MaxNames

\* ---------------------------------------------------------------- layers
File == [tag |-> "File", kids |-> <<>>]

Dir(xs) == [tag |-> "Dir", kids |-> xs]

LayersOver(X) ==
    {File} \cup {Dir(xs) : xs \in UNION {[K -> X] : K \in SUBSET Names}}

\* The sequences of layers for the positions lo..hi in which every child of
\* the layer at position p lies in p+1..hi.
RECURSIVE Chains(_, _)
Chains(lo, hi) ==
    IF lo > hi
    THEN {<<>>}
    ELSE {<<l>> \o rest : l \in LayersOver((lo + 1)..hi), rest \in Chains(lo + 1, hi)}

RECURSIVE SumOver(_, _)
SumOver(f, K) ==
    IF K = {}
    THEN 0
    ELSE LET k == CHOOSE x \in K : TRUE IN f[k] + SumOver(f, K \ {k})

\* The number of layers in the unfolding of seed s under g.
RECURSIVE UnfoldSize(_, _)
UnfoldSize(g, s) ==
    1 + SumOver([k \in DOMAIN g[s].kids |-> UnfoldSize(g, g[s].kids[k])],
                DOMAIN g[s].kids)

\* The seeds the unfolding of s passes through.
RECURSIVE Reach(_, _)
Reach(g, s) ==
    {s} \cup UNION {Reach(g, g[s].kids[k]) : k \in DOMAIN g[s].kids}

\* The generators: total functions from seeds to layers of seeds.  Every
\* child seed is larger than its parent's, so every unfolding is finite.
Generators == Chains(1, MaxSeed)

\* The generator and seed of a call: the unfolding has at most MaxNodes
\* layers; what the generator does on seeds the unfolding never meets plays
\* no part and is fixed.
Unfoldable(g, a) ==
    /\ UnfoldSize(g, a) <= MaxNodes
    /\ \A s \in Seeds \ Reach(g, a) : g[s] = File

\* The orders in which an iteration over a HashMap may yield the keys.
Orders(K) ==
    {ord \in [1..Cardinality(K) -> K] :
        \A i, j \in 1..Cardinality(K) : i # j => ord[i] # ord[j]}

\* ---------------------------------------------------------------- expand
\* Faults of the index rule: the frontier measured before the push, the
\* layer counted as if it were already appended, the frontier ignored.
NextIndexBeforePush(elemsLen, frontierLen) == elemsLen + frontierLen - 1

NextIndexAfterAppend(elemsLen, frontierLen) == elemsLen + frontierLen + 1

NextIndexNoFrontier(elemsLen, frontierLen) == elemsLen + 1

NextIndex(elemsLen, frontierLen) == elemsLen + frontierLen

\* map_layer with the closure of expand_layers: the children are visited in
\* the order ord; each is pushed on the frontier and replaced by its index.
RECURSIVE VisitExpand(_, _, _, _, _, _)
VisitExpand(kids, ord, fr, n, acc, pushed) ==
    IF ord = <<>>
    THEN [kids |-> acc, frontier |-> fr, pushed |-> pushed]
    ELSE LET k   == Head(ord)
             fr2 == Append(fr, kids[k])
             idx == NextIndex(n, Len(fr2))
         IN  VisitExpand(kids, Tail(ord), fr2, n, acc @@ (k :> idx),
                         Append(pushed, kids[k]))

\* frontier.pop_front() on a non-empty frontier; PopBack is the LIFO fault.
PopBack(q) == [seed |-> q[Len(q)], rest |-> SubSeq(q, 1, Len(q) - 1)]

PopFront(q) == [seed |-> Head(q), rest |-> Tail(q)]

NoOutcome == [kind |-> "none"]

NoValue == [kind |-> "none"]

WholeStore == [start |-> 0, offset |-> 0]

CollapseIdle ==
    /\ alg = "term"
    /\ view = WholeStore
    /\ results = <<>>
    /\ it = 0
    /\ log = <<>>
    /\ tainted = FALSE
    /\ ret = NoValue

AsyncIdle ==
    /\ failAt = {}
    /\ pending = {}
    /\ yields = <<>>
    /\ outcome = NoOutcome

ExpandInit ==
    /\ gen \in Generators
    /\ \E a \in Seeds : Unfoldable(gen, a) /\ frontier = <<a>> /\ enq = <<a>>
    /\ elems = <<>>
    /\ seedOf = <<>>
    /\ calls = <<>>
    /\ pc = "expand"
    /\ AsyncIdle
    /\ CollapseIdle

ExpandStep ==
    /\ pc = "expand"
    /\ frontier # <<>>
    /\ LET seed  == PopFront(frontier).seed
           layer == gen[seed]
       IN  \E ord \in Orders(DOMAIN layer.kids) :
              LET m == VisitExpand(layer.kids, ord, PopFront(frontier).rest,
                                   Len(elems), <<>>, <<>>)
              IN  /\ frontier' = m.frontier
                  /\ elems' = Append(elems, [tag |-> layer.tag, kids |-> m.kids])
                  /\ seedOf' = Append(seedOf, seed)
                  /\ calls' = Append(calls, seed)
                  /\ enq' = enq \o m.pushed
    /\ UNCHANGED <<gen, pc, asyncVars, collapseVars>>

ExpandReturn ==
    /\ pc = "expand"
    /\ frontier = <<>>
    /\ pc' = "built"
    /\ UNCHANGED <<expandVars, asyncVars, collapseVars>>

ExpandNext == ExpandStep \/ ExpandReturn

SpecExpand == ExpandInit /\ [][ExpandNext]_vars

\* ---------------------------------------------------------- expand, async
\* The error a failing generation step yields: the generator's own, told
\* apart by the step and the seed it was called with.
ErrOf(step, seed) == [step |-> step, seed |-> seed]

AsyncInit ==
    /\ gen \in Generators
    /\ \E a \in Seeds : Unfoldable(gen, a) /\ frontier = <<a>> /\ enq = <<a>>
    /\ elems = <<>>
    /\ seedOf = <<>>
    /\ calls = <<>>
    /\ pc = "loop"
    /\ failAt \in SUBSET (0..MaxFailStep)
    /\ pending = {}
    /\ yields = <<>>
    /\ outcome = NoOutcome
    /\ CollapseIdle

\* The coroutine runs on only from the head of the loop: at the await it is
\* suspended until the future in flight is ready.
AtLoopHeadOrAwait == pc \in {"loop", "await"}

AtLoopHead == pc = "loop"

\* while let Some(seed) = frontier.pop_front() { generate_layer(seed) ...
AsyncGenerate ==
    /\ AtLoopHead
    /\ frontier # <<>>
    /\ frontier' = PopFront(frontier).rest
    /\ calls' = Append(calls, PopFront(frontier).seed)
    /\ pending' = pending \cup {[step |-> Len(calls), seed |-> PopFront(frontier).seed]}
    /\ pc' = "await"
    /\ UNCHANGED <<gen, elems, seedOf, enq, failAt, yields, outcome, collapseVars>>

\* ... .await yields Ok(layer): map_layer, push, back to the head of the loop
AsyncReadyOk ==
    /\ pc = "await"
    /\ \E fut \in pending :
          /\ fut.step \notin failAt
          /\ LET layer == gen[fut.seed]
             IN  \E ord \in Orders(DOMAIN layer.kids) :
                    LET m == VisitExpand(layer.kids, ord, frontier, Len(elems),
                                         <<>>, <<>>)
                    IN  /\ frontier' = m.frontier
                        /\ elems' = Append(elems, [tag |-> layer.tag, kids |-> m.kids])
                        /\ seedOf' = Append(seedOf, fut.seed)
                        /\ enq' = enq \o m.pushed
          /\ pending' = pending \ {fut}
          /\ yields' = Append(yields, [step |-> fut.step, ok |-> TRUE])
    /\ pc' = "loop"
    /\ UNCHANGED <<gen, calls, failAt, outcome, collapseVars>>

\* The fault of going on with the next seed after an Err.
AsyncReadyErrSwallowed ==
    /\ pc = "await"
    /\ \E fut \in pending :
          /\ fut.step \in failAt
          /\ pending' = pending \ {fut}
          /\ yields' = Append(yields, [step |-> fut.step, ok |-> FALSE])
    /\ pc' = "loop"
    /\ UNCHANGED <<gen, frontier, elems, seedOf, calls, enq, failAt, outcome, collapseVars>>

\* ... .await yields Err(e): `?` returns Err(e); the locals are dropped
AsyncReadyErr ==
    /\ pc = "await"
    /\ \E fut \in pending :
          /\ fut.step \in failAt
          /\ pending' = pending \ {fut}
          /\ yields' = Append(yields, [step |-> fut.step, ok |-> FALSE])
          /\ outcome' = [kind |-> "err", err |-> ErrOf(fut.step, fut.seed)]
    /\ pc' = "failed"
    /\ frontier' = <<>>
    /\ elems' = <<>>
    /\ UNCHANGED <<gen, seedOf, calls, enq, failAt, collapseVars>>

\* The fault of handing out the elements built so far whatever the frontier.
AsyncReturnPartial ==
    /\ AtLoopHead
    /\ outcome' = [kind |-> "ok", store |-> elems]
    /\ pc' = "resolved"
    /\ UNCHANGED <<expandVars, failAt, pending, yields, collapseVars>>

\* the frontier is empty: Ok(Self { elems, .. })
AsyncReturn ==
    /\ AtLoopHead
    /\ frontier = <<>>
    /\ outcome' = [kind |-> "ok", store |-> elems]
    /\ pc' = "resolved"
    /\ UNCHANGED <<expandVars, failAt, pending, yields, collapseVars>>

\* The caller drops the boxed future while it is suspended at the await (or
\* before it was first polled): the locals and the future in flight go.
AsyncCancel ==
    /\ \/ pc = "await"
       \/ pc = "loop" /\ calls = <<>>
    /\ pc' = "cancelled"
    /\ pending' = {}
    /\ frontier' = <<>>
    /\ elems' = <<>>
    /\ UNCHANGED <<gen, seedOf, calls, enq, failAt, yields, outcome, collapseVars>>

AsyncNext ==
    \/ AsyncGenerate
    \/ AsyncReadyOk
    \/ AsyncReadyErr
    \/ AsyncReturn
    \/ AsyncCancel

SpecAsync == AsyncInit /\ [][AsyncNext]_vars

\* The steps whose future has yielded an error.
Failed == {yields[j].step : j \in {i \in 1..Len(yields) : ~yields[i].ok}}

Min(S) == CHOOSE x \in S : \A y \in S : x <= y

\* C4: once step k is the first to yield an error, the build has resolved
\* to the error of step k, the generator has been invoked for the steps
\* 0..k and no others, and no store is returned.
C4_FirstErrorShortCircuits ==
    /\ Failed # {} =>
          LET k == Min(Failed)
          IN  /\ outcome = [kind |-> "err", err |-> ErrOf(k, calls[k + 1])]
              /\ Len(calls) = k + 1
              /\ k = Min(failAt)
    /\ outcome.kind = "err" => Failed # {}
    /\ outcome.kind = "ok" => Failed = {}

C4_Witness ==
    /\ outcome.kind = "err"
    /\ outcome.err.step = 2
    /\ Cardinality(failAt) >= 2
    /\ Len(enq) > Len(calls)

\* C5: generation is sequential and in FIFO order: at most one future is
\* in flight, the generator is invoked for a seed only when every earlier
\* future has completed, and the seeds are generated in the order in which
\* they were enqueued.
C5_SequentialFifo ==
    /\ Cardinality(pending) <= 1
    /\ Len(calls) <= Len(yields) + 1
    /\ pc # "cancelled" => Len(calls) = Len(yields) + Cardinality(pending)
    /\ Len(calls) <= Len(enq)
    /\ calls = SubSeq(enq, 1, Len(calls))
    /\ \A j \in 1..Len(yields) : yields[j].step = j - 1

C5_Witness ==
    /\ pc = "await"
    /\ Len(yields) >= 2
    /\ Len(frontier) >= 2
    /\ calls[2] # calls[3]

\* ------------------------------------------------- properties of a store
\* The child slots of a store, as <<position, key>>.
ChildRefs(store) ==
    {r \in (0..(Len(store) - 1)) \X Names : r[2] \in DOMAIN store[r[1] + 1].kids}

ChildAt(store, r) == store[r[1] + 1].kids[r[2]]

\* C1: in the store returned by expand_layers every child index stored in
\* the element at position i is greater than i, and index 0 is stored
\* nowhere.
C1_ChildAfterParent ==
    pc = "built" =>
        \A r \in ChildRefs(elems) : ChildAt(elems, r) > r[1] /\ ChildAt(elems, r) # 0

C1_Witness ==
    /\ pc = "built"
    /\ Len(elems) >= 4
    /\ \E r \in ChildRefs(elems) : r[1] >= 1 /\ Cardinality(DOMAIN elems[r[1] + 1].kids) = 2

\* C3: the index written in place of a child seed is the position at which
\* the layer generated from that seed is appended: elems[c] comes from the
\* seed that c replaced, and is that seed's layer.
C3_IndexIsPositionOfChild ==
    pc = "built" =>
        \A r \in ChildRefs(elems) :
            LET c     == ChildAt(elems, r)
                child == gen[seedOf[r[1] + 1]].kids[r[2]]
            IN  /\ c < Len(elems)
                /\ seedOf[c + 1] = child
                /\ elems[c + 1].tag = gen[child].tag
                /\ DOMAIN elems[c + 1].kids = DOMAIN gen[child].kids

C3_Witness ==
    /\ pc = "built"
    /\ \E r1, r2 \in ChildRefs(elems) :
          /\ r1[1] = 0
          /\ r2[1] = ChildAt(elems, r1)
          /\ ChildAt(elems, r2) > r2[1] + 1
          /\ seedOf[ChildAt(elems, r2) + 1] = gen[seedOf[r2[1] + 1]].kids[r2[2]]

\* C7: in a store of n elements returned by expand_layers each of the
\* indices 1..n-1 is stored in exactly one child slot, and no other index
\* is stored.
C7_EachIndexOnce ==
    pc = "built" =>
        /\ \A r \in ChildRefs(elems) : ChildAt(elems, r) \in 1..(Len(elems) - 1)
        /\ \A c \in 1..(Len(elems) - 1) :
              Cardinality({r \in ChildRefs(elems) : ChildAt(elems, r) = c}) = 1

C7_Witness ==
    /\ pc = "built"
    /\ Len(elems) >= 5
    /\ \E i, j \in 1..Len(seedOf) : i # j /\ seedOf[i] = seedOf[j]

\* ---------------------------------------------------------------- reducers
Max(S) == CHOOSE x \in S : \A y \in S : x >= y

Range(f) == {f[k] : k \in DOMAIN f}

\* The reducer of depth: a Dir is one more than the largest of its
\* children's values (0 when it has none), anything else is 1.
DepthNoPlusOne(node) ==
    IF node.tag = "Dir"
    THEN (IF DOMAIN node.kids = {} THEN 0 ELSE Max(Range(node.kids)))
    ELSE 1

DepthLayer(node) ==
    IF node.tag = "Dir"
    THEN (IF DOMAIN node.kids = {} THEN 0 ELSE Max(Range(node.kids))) + 1
    ELSE 1

\* "term" is the reducer that returns the layer it is given: its fold is
\* the tree itself, of which every other reducer's fold is a function.
Reducers == {"term", "depth"}

Reduce(a, node) == IF a = "depth" THEN DepthLayer(node) ELSE node

\* What a read of memory that holds no value may produce.
Junk(a) == IF a = "depth" THEN 0 - 1 ELSE [tag |-> "junk", kids |-> <<>>]

\* ------------------------------------------------------- stores to collapse
\* The stores of n elements, with at most MaxRefs child slots in all, in
\* which every child index is greater than the position of its element and
\* less than n (two slots may hold the same index).
OrderedStores(n) ==
    {st \in Chains(0, n - 1) :
        SumOver([i \in 1..n |-> Cardinality(DOMAIN st[i].kids)], 1..n) <= MaxRefs}

\* A store in which the child slot k of the element at position i was
\* overwritten with the index c.  collapse_layers takes any RecursiveTree:
\* nothing checks the indices a store holds, and a map_layer of the caller
\* that puts an index in a second slot, or a store changed after it was
\* built, gives one that expand_layers with a lawful map_layer never does.
Corrupt(store, i, k, c) ==
    [store EXCEPT ![i + 1] =
        Dir([j \in DOMAIN store[i + 1].kids \cup {k} |->
                IF j = k THEN c ELSE store[i + 1].kids[j]])]

\* The corrupting indices: back or self references, and one past the end.
\* The slots an index may be written to: the slots there are, and the
\* first slot of the root.
Corruptible(st) ==
    {r \in (0..(Len(st) - 1)) \X Names :
        r = <<0, 1>> \/ r[2] \in DOMAIN st[r[1] + 1].kids}

\* The stores st turns into when one slot is overwritten with the index of
\* its own element, of an earlier element, or with one past the end.
Corrupted(st) ==
    UNION {{Corrupt(st, r[1], r[2], c) : c \in (0..r[1]) \cup {Len(st)}} :
           r \in Corruptible(st)}

ChildAfterParent(store) ==
    \A r \in ChildRefs(store) : ChildAt(store, r) > r[1]

InBounds(store) ==
    \A r \in ChildRefs(store) : ChildAt(store, r) < Len(store)

NoSharing(store) ==
    \A r1, r2 \in ChildRefs(store) :
        ChildAt(store, r1) = ChildAt(store, r2) => r1 = r2

\* The recursive fold of the tree rooted at position i.
RECURSIVE RefFold(_, _, _)
RefFold(store, i, a) ==
    Reduce(a, [tag  |-> store[i + 1].tag,
               kids |-> [k \in DOMAIN store[i + 1].kids |->
                            RefFold(store, store[i + 1].kids[k], a)]])

\* --------------------------------------------------------- collapse, owning
Uninit(a) == [st |-> "uninit", v |-> Junk(a)]

\* map_layer with the closure of collapse_layers: the children are visited
\* in the order ord and each index x is replaced by what
\* mem::replace(results.get_unchecked_mut(x - off), uninit).assume_init()
\* produces.  On a slot that holds a value that is the value, and the slot is
\* left without one.  On a slot without a value, or outside the array, the
\* read is undefined: ub is what the build makes of it (the process dies,
\* the bits of the value moved out earlier are still there, or anything).
RECURSIVE VisitTake(_, _, _, _, _, _)
VisitTake(kids, ord, off, ub, a, acc) ==
    IF ord = <<>> \/ acc.crashed
    THEN acc
    ELSE LET k    == Head(ord)
             sx   == kids[k] - off
             inb  == sx >= 0 /\ sx < Len(acc.results)
             slot == acc.results[sx + 1]
         IN  IF inb /\ slot.st = "init"
             THEN VisitTake(kids, Tail(ord), off, ub, a,
                    [acc EXCEPT !.kids = @ @@ (k :> slot.v),
                                !.results[sx + 1] = [st |-> "moved", v |-> slot.v]])
             ELSE IF ub = "crash"
             THEN [acc EXCEPT !.crashed = TRUE]
             ELSE VisitTake(kids, Tail(ord), off, ub, a,
                    [acc EXCEPT !.kids = @ @@ (k :> IF ub = "stale" /\ inb /\ slot.st = "moved"
                                                    THEN slot.v ELSE Junk(a)),
                                !.fault = TRUE])

UbOutcomes == {"crash", "stale", "junk"}

\* The fault of an iteration that does not write its value to slot idx.
ScanNoWrite(node, idx, off) ==
    \E ord \in Orders(DOMAIN node.kids) : \E ub \in UbOutcomes :
        LET m == VisitTake(node.kids, ord, off, ub, alg,
                    [kids |-> <<>>, results |-> results, fault |-> FALSE, crashed |-> FALSE])
        IN  IF m.crashed
            THEN /\ pc' = "crashed"
                 /\ tainted' = TRUE
                 /\ UNCHANGED <<results, it, log, ret>>
            ELSE /\ results' = m.results
                 /\ it' = it - 1
                 /\ log' = Append(log, idx + off)
                 /\ tainted' = (tainted \/ m.fault)
                 /\ UNCHANGED <<pc, ret>>

\* One iteration of `for (idx, node) in ....enumerate().rev()`: the children
\* are taken out of their slots, the reducer is applied, the value is
\* written to slot idx.
Scan(node, idx, off) ==
    \E ord \in Orders(DOMAIN node.kids) : \E ub \in UbOutcomes :
        LET m == VisitTake(node.kids, ord, off, ub, alg,
                    [kids |-> <<>>, results |-> results, fault |-> FALSE, crashed |-> FALSE])
            v == Reduce(alg, [tag |-> node.tag, kids |-> m.kids])
        IN  IF m.crashed
            THEN /\ pc' = "crashed"
                 /\ tainted' = TRUE
                 /\ UNCHANGED <<results, it, log, ret>>
            ELSE /\ results' = [m.results EXCEPT ![idx + 1] = [st |-> "init", v |-> v]]
                 /\ it' = it - 1
                 /\ log' = Append(log, idx + off)
                 /\ tainted' = (tainted \/ m.fault)
                 /\ UNCHANGED <<pc, ret>>

\* The final mem::replace(results.get_unchecked_mut(0), uninit).assume_init()
TakeHead ==
    IF results # <<>> /\ results[1].st = "init"
    THEN /\ ret' = [kind |-> "value", v |-> results[1].v]
         /\ results' = [results EXCEPT ![1] = [st |-> "moved", v |-> @.v]]
         /\ pc' = "returned"
         /\ UNCHANGED tainted
    ELSE /\ tainted' = TRUE
         /\ UNCHANGED results
         /\ \/ pc' = "crashed" /\ UNCHANGED ret
            \/ pc' = "returned" /\ ret' = [kind |-> "value", v |-> Junk(alg)]

CollapseInit ==
    /\ \E n \in 1..MaxStore : \E st \in OrderedStores(n) :
          elems \in {st} \cup Corrupted(st)
    /\ alg \in Reducers
    /\ pc = "built"
    /\ gen = [s \in Seeds |-> File]
    /\ frontier = <<>>
    /\ seedOf = <<>>
    /\ calls = <<>>
    /\ enq = <<>>
    /\ AsyncIdle
    /\ view = WholeStore
    /\ results = <<>>
    /\ it = 0
    /\ log = <<>>
    /\ tainted = FALSE
    /\ ret = NoValue

\* The fault of a scan that starts one element short of the end.
CollapseBeginSkipLast ==
    /\ pc = "built"
    /\ results' = [i \in 1..Len(elems) |-> Uninit(alg)]
    /\ it' = Len(elems) - 1
    /\ pc' = "collapse"
    /\ UNCHANGED <<expandVars, asyncVars, alg, view, log, tainted, ret>>

\* let mut results = repeat_with(uninit).take(self.elems.len()).collect()
CollapseBegin ==
    /\ pc = "built"
    /\ results' = [i \in 1..Len(elems) |-> Uninit(alg)]
    /\ it' = Len(elems)
    /\ pc' = "collapse"
    /\ UNCHANGED <<expandVars, asyncVars, alg, view, log, tainted, ret>>

CollapseStep ==
    /\ pc = "collapse"
    /\ it > 0
    /\ Scan(elems[it], it - 1, 0)
    /\ UNCHANGED <<expandVars, asyncVars, alg, view>>

CollapseTake ==
    /\ pc = "collapse"
    /\ it = 0
    /\ TakeHead
    /\ UNCHANGED <<expandVars, asyncVars, alg, view, it, log>>

CollapseNext == CollapseBegin \/ CollapseStep \/ CollapseTake

SpecCollapse == CollapseInit /\ [][CollapseNext]_vars

Descending(n) == [j \in 1..n |-> n - j]

\* C2 as stated: on every store whose child indices are greater than the
\* position of their element (and lie in the store) collapse_layers returns
\* the value of the recursive fold of the tree at index 0, the reducer
\* having been invoked once per element in descending order.
C2_AsStated ==
    (ChildAfterParent(elems) /\ InBounds(elems) /\ pc \in {"returned", "crashed"}) =>
        /\ pc = "returned"
        /\ ret = [kind |-> "value", v |-> RefFold(elems, 0, alg)]
        /\ log = Descending(Len(elems))

\* C2: on every store whose child indices are greater than the position of
\* their element, lie in the store and are each stored in one slot only,
\* collapse_layers returns the value of the recursive fold of the tree at
\* index 0, and the reducer is invoked once per element, in descending
\* order of position.
C2_CollapseIsFold ==
    (ChildAfterParent(elems) /\ InBounds(elems) /\ NoSharing(elems)) =>
        /\ pc # "crashed"
        /\ ~tainted
        /\ log = SubSeq(Descending(Len(elems)), 1, Len(log))
        /\ pc = "returned" =>
              /\ ret = [kind |-> "value", v |-> RefFold(elems, 0, alg)]
              /\ log = Descending(Len(elems))

C2_Witness ==
    /\ pc = "returned"
    /\ ChildAfterParent(elems) /\ InBounds(elems) /\ NoSharing(elems)
    /\ Len(elems) = 3
    /\ alg = "term"
    /\ DOMAIN elems[1].kids = {2}
    /\ elems[1].kids[2] = 1
    /\ DOMAIN elems[2].kids = {1}
    /\ elems[2].kids[1] = 2
    /\ elems[3] = File
    /\ ret.v.kids[2].kids[1] = File

\* C8 as stated: on a store that breaks the invariant the read of a slot
\* that holds no value makes collapse_layers fail at once; the call does
\* not go on, and does not return, with what such a read produced.
C8_FailFast ==
    tainted => pc = "crashed"

\* -------------------------------------------------------- collapse, borrowed
\* The elements of the slice a view borrows.
Slice(v) == SubSeq(elems, v.start + 1, Len(elems))

\* RecursiveTreeRefWithOffset::collapse_layers:
\* let mut results = repeat_with(uninit).take(self.recursive_tree.elems.len())
RefBegin(v, a) ==
    /\ view' = v
    /\ alg' = a
    /\ results' = [i \in 1..Len(Slice(v)) |-> Uninit(a)]
    /\ it' = Len(Slice(v))
    /\ log' = <<>>
    /\ pc' = "collapse_ref"
    /\ UNCHANGED <<tainted, ret>>

\* The fault of taking index x from slot x, whatever the offset of the view.
RefStepNoOffset ==
    /\ pc = "collapse_ref"
    /\ it > 0
    /\ Scan(Slice(view)[it], it - 1, 0)
    /\ UNCHANGED <<expandVars, asyncVars, alg, view>>

\* One iteration of the reversed scan of the slice; index x is taken from
\* slot x - self.offset.
RefStep ==
    /\ pc = "collapse_ref"
    /\ it > 0
    /\ Scan(Slice(view)[it], it - 1, view.offset)
    /\ UNCHANGED <<expandVars, asyncVars, alg, view>>

RefTake ==
    /\ pc = "collapse_ref"
    /\ it = 0
    /\ TakeHead
    /\ UNCHANGED <<expandVars, asyncVars, alg, view, it, log>>

\* ---------------------------------------------------------------- depth
\* depth(tree): tree.as_ref().collapse_layers(reducer of depth), and
\* RecursiveTreeRef::collapse_layers is the collapse of the view of the whole
\* store with offset 0.
DepthCall ==
    /\ pc = "built"
    /\ RefBegin(WholeStore, "depth")
    /\ UNCHANGED <<expandVars, asyncVars>>

DepthNext == ExpandStep \/ ExpandReturn \/ DepthCall \/ RefStep \/ RefTake

SpecDepth == ExpandInit /\ [][DepthNext]_vars

\* The root-to-leaf paths of the unfolding of seed s, as sequences of seeds.
RECURSIVE PathsFrom(_, _)
PathsFrom(g, s) ==
    IF DOMAIN g[s].kids = {}
    THEN {<<s>>}
    ELSE {<<s>> \o p : p \in UNION {PathsFrom(g, g[s].kids[k]) : k \in DOMAIN g[s].kids}}

LongestPath(g, s) == Max({Len(p) : p \in PathsFrom(g, s)})

\* A root directory that holds one file and one directory that holds one
\* file.
TwoLevelExample ==
    /\ Len(elems) = 4
    /\ \E f, d \in Names :
          /\ f # d
          /\ DOMAIN elems[1].kids = {f, d}
          /\ elems[elems[1].kids[f] + 1] = File
          /\ elems[elems[1].kids[d] + 1].tag = "Dir"
          /\ \E k \in Names :
                /\ DOMAIN elems[elems[1].kids[d] + 1].kids = {k}
                /\ elems[elems[elems[1].kids[d] + 1].kids[k] + 1] = File

\* C9 as stated: depth returns the number of nodes on the longest path from
\* the root to a leaf, 1 for a single leaf, and 2 for a root directory that
\* holds one file and one directory that holds one file.
C9_AsStated ==
    pc = "returned" =>
        /\ ret.v = LongestPath(gen, seedOf[1])
        /\ Len(elems) = 1 => ret.v = 1
        /\ TwoLevelExample => ret.v = 2

\* C9: depth of a store made by expand returns the number of nodes on the
\* longest path from the root to a leaf: 1 for a single leaf, and 3 for a
\* root directory that holds one file and one directory that holds one file.
C9_DepthIsLongestPath ==
    pc = "returned" =>
        /\ ret.v = LongestPath(gen, seedOf[1])
        /\ Len(elems) = 1 => ret.v = 1
        /\ TwoLevelExample => ret.v = 3

C9_Witness ==
    /\ pc = "returned"
    /\ TwoLevelExample
    /\ ret.v = 3

\* ---------------------------------------------------------------- linked list
Chars == {"a", "b", "c"}

\* s.chars() for the strings of at most MaxStr characters.
Strings == UNION {[1..n -> Chars] : n \in 0..MaxStr}

Cons(c, a) == [tag |-> "Cons", c |-> c, kids |-> <<a>>]

Nil == [tag |-> "Nil", kids |-> <<>>]

\* Functor::fmap of CharLinkedList; f is the closure, as a function on the
\* children of l.
fmap(l, f) == IF l.tag = "Cons" THEN Cons(l.c, f[l.kids[1]]) ELSE Nil

\* The generator of from_str: the next character and the rest of the
\* iterator, or Nil at its end.
FromStrLayer(chars) ==
    IF chars # <<>> THEN Cons(Head(chars), Tail(chars)) ELSE Nil

\* The fault of writing the folded tail before the character.
ToStrLayerTailFirst(cll) ==
    IF cll.tag = "Cons" THEN cll.kids[1] \o <<cll.c>> ELSE <<>>

\* The reducer of to_str: format!("{}{}", c, s), or String::new().
ToStrLayer(cll) ==
    IF cll.tag = "Cons" THEN <<cll.c>> \o cll.kids[1] ELSE <<>>

ListInit ==
    /\ \E s \in Strings : frontier = <<s>> /\ enq = <<s>>
    /\ elems = <<>>
    /\ seedOf = <<>>
    /\ calls = <<>>
    /\ pc = "unfold"
    /\ gen = [s \in Seeds |-> File]
    /\ AsyncIdle
    /\ CollapseIdle

\* RecursiveStruct::unfold, one seed: the layer of the seed at the head of
\* the frontier is generated, its child is enqueued and replaced by the
\* output length plus the frontier length after the enqueue, and the layer
\* is appended to the output.
UnfoldStep ==
    /\ pc = "unfold"
    /\ frontier # <<>>
    /\ LET seed   == Head(frontier)
           layer  == FromStrLayer(seed)
           pushed == IF layer.tag = "Cons" THEN <<layer.kids[1]>> ELSE <<>>
           fr     == Tail(frontier) \o pushed
       IN  /\ frontier' = fr
           /\ elems' = Append(elems, fmap(layer, [aa \in Range(layer.kids) |-> Len(elems) + Len(fr)]))
           /\ seedOf' = Append(seedOf, seed)
           /\ calls' = Append(calls, seed)
           /\ enq' = enq \o pushed
    /\ UNCHANGED <<gen, pc, asyncVars, collapseVars>>

\* RecursiveStruct::unfold returns when the frontier is empty.
UnfoldReturn ==
    /\ pc = "unfold"
    /\ frontier = <<>>
    /\ pc' = "unfolded"
    /\ UNCHANGED <<expandVars, asyncVars, collapseVars>>

\* to_str(r): r.fold(reducer) allocates one empty slot per element.
FoldBegin ==
    /\ pc = "unfolded"
    /\ alg' = "to_str"
    /\ results' = [i \in 1..Len(elems) |-> [st |-> "uninit", v |-> <<>>]]
    /\ it' = Len(elems)
    /\ pc' = "fold"
    /\ UNCHANGED <<expandVars, asyncVars, view, log, tainted, ret>>

\* RecursiveStruct::fold, one element of the descending scan: the child
\* index is replaced by the value taken out of its slot, the reducer is
\* applied and its value is stored in the slot of the element; a slot that
\* holds no value ends the call.
FoldStep ==
    /\ pc = "fold"
    /\ it > 0
    /\ LET node == elems[it]
           ok   == \A k \in DOMAIN node.kids :
                       /\ node.kids[k] < Len(results)
                       /\ results[node.kids[k] + 1].st = "init"
       IN  IF ok
           THEN /\ results' =
                     [i \in 1..Len(results) |->
                        IF i = it
                        THEN [st |-> "init",
                              v  |-> ToStrLayer(fmap(node, [x \in Range(node.kids) |-> results[x + 1].v]))]
                        ELSE IF i - 1 \in Range(node.kids)
                        THEN [st |-> "moved", v |-> results[i].v]
                        ELSE results[i]]
                /\ it' = it - 1
                /\ log' = Append(log, it - 1)
                /\ UNCHANGED pc
           ELSE /\ pc' = "failed"
                /\ UNCHANGED <<results, it, log>>
    /\ UNCHANGED <<expandVars, asyncVars, alg, view, tainted, ret>>

\* After the scan the value in slot 0 is the result.
FoldTake ==
    /\ pc = "fold"
    /\ it = 0
    /\ IF results[1].st = "init"
       THEN /\ ret' = [kind |-> "value", v |-> results[1].v]
            /\ results' = [results EXCEPT ![1] = [st |-> "moved", v |-> @.v]]
            /\ pc' = "returned"
       ELSE /\ pc' = "failed"
            /\ UNCHANGED <<results, ret>>
    /\ UNCHANGED <<expandVars, asyncVars, alg, view, it, log, tainted>>

ListNext == UnfoldStep \/ UnfoldReturn \/ FoldBegin \/ FoldStep \/ FoldTake

SpecList == ListInit /\ [][ListNext]_vars

\* C6: to_str(from_str(s)) = s for every string s, the empty string
\* included; the store built from a string of n characters has n + 1
\* elements: Cons(s[i], i + 1) at every position i < n and Nil at position n.
C6_RoundTrip ==
    /\ pc # "failed"
    /\ pc = "returned" => ret.v = enq[1]
    /\ pc \in {"unfolded", "fold", "returned"} =>
          /\ Len(elems) = Len(enq[1]) + 1
          /\ \A i \in 0..(Len(enq[1]) - 1) : elems[i + 1] = Cons(enq[1][i + 1], i + 1)
          /\ elems[Len(enq[1]) + 1] = Nil

C6_Witness ==
    /\ pc = "returned"
    /\ enq[1] = <<"a", "b", "c">>
    /\ ret.v = <<"a", "b", "c">>
    /\ Len(elems) = 4

\* ------------------------------------------------ collapse with substructure
None == [st |-> "uninit", v |-> [tag |-> "none", kids |-> <<>>]]

\* The fault of a view that carries the position of the parent as offset.
SubstructureAt(x, idx) ==
    [start   |-> view.start + x,
     offset  |-> idx,
     context |-> SubSeq(results, x + 1, Len(results))]

\* RecursiveTreeRefWithOffsetAndContext { recursive_tree: &self.elems[x..],
\* offset: x, context: &results[x..] }, built for a child of element idx
Substructure(x, idx) ==
    [start   |-> view.start + x,
     offset  |-> x,
     context |-> SubSeq(results, x + 1, Len(results))]

\* The slicings, the indexing and the unwrap of the closure succeed.
Readable(x) ==
    /\ x < Len(results)
    /\ results[x + 1].st = "init"

\* The reducer that returns all it is given: the layer, with the value and
\* the view received for every child.
PairLayer(node) == node

\* let mut results: Vec<Option<A>> = repeat_with(|| None).take(len).collect()
Collapse2Begin ==
    /\ pc = "built"
    /\ alg' = "pairs"
    /\ results' = [i \in 1..Len(Slice(view)) |-> None]
    /\ it' = Len(Slice(view))
    /\ pc' = "collapse2"
    /\ UNCHANGED <<expandVars, asyncVars, view, log, tainted, ret>>

\* One iteration: every child index x becomes (&results[x].unwrap(), view
\* of the substructure at x); the reducer is applied; results[idx] = Some(..).
\* A slot that is None, or an index outside the array, panics.
Collapse2Step ==
    /\ pc = "collapse2"
    /\ it > 0
    /\ LET idx  == it - 1
           node == Slice(view)[it]
       IN  IF \A k \in DOMAIN node.kids : Readable(node.kids[k])
           THEN LET arg == [tag  |-> node.tag,
                            kids |-> [k \in DOMAIN node.kids |->
                                        [val |-> results[node.kids[k] + 1].v,
                                         sub |-> Substructure(node.kids[k], idx)]]]
                    out == PairLayer(arg)
                IN  /\ results' = [results EXCEPT ![idx + 1] = [st |-> "init", v |-> out]]
                    /\ log' = Append(log, [pos |-> idx, node |-> arg, out |-> out])
                    /\ it' = it - 1
                    /\ UNCHANGED pc
           ELSE /\ pc' = "panicked"
                /\ UNCHANGED <<results, log, it>>
    /\ UNCHANGED <<expandVars, asyncVars, alg, view, tainted, ret>>

\* results.swap_remove(0).take().unwrap()
Collapse2Take ==
    /\ pc = "collapse2"
    /\ it = 0
    /\ IF results # <<>> /\ results[1].st = "init"
       THEN /\ ret' = [kind |-> "value", v |-> results[1].v]
            /\ results' = IF Len(results) = 1
                          THEN <<>>
                          ELSE <<results[Len(results)]>> \o SubSeq(results, 2, Len(results) - 1)
            /\ pc' = "returned"
       ELSE /\ pc' = "panicked"
            /\ UNCHANGED <<results, ret>>
    /\ UNCHANGED <<expandVars, asyncVars, alg, view, it, log, tainted>>

Collapse2Next == Collapse2Begin \/ Collapse2Step \/ Collapse2Take

SpecCollapse2 == CollapseInit /\ [][Collapse2Next]_vars

\* What the reducer received is right at every invocation so far, and the
\* value returned is the one reduced for element 0.
ReducerGotPairs ==
    /\ \A j \in 1..Len(log) :
          \A k \in DOMAIN elems[log[j].pos + 1].kids :
              LET c   == elems[log[j].pos + 1].kids[k]
                  got == log[j].node.kids[k]
              IN  /\ \E j2 \in 1..(j - 1) : log[j2].pos = c /\ log[j2].out = got.val
                  /\ got.sub.start = c
                  /\ got.sub.offset = c
    /\ pc = "returned" =>
          \E j \in 1..Len(log) : log[j].pos = 0 /\ ret.v = log[j].out

\* C10: in collapse_layers_2 on the view of a whole store the reducer for
\* element i receives, for every child index c of i, the value the reducer
\* returned for element c and a view whose slice starts at element c with
\* offset c; the call returns the value reduced for element 0; the store is
\* left as it was.
C10_PairsOfValueAndView ==
    []ReducerGotPairs /\ [][elems' = elems]_vars

C10_Witness ==
    /\ pc = "returned"
    /\ Len(elems) = 3
    /\ \E j \in 1..Len(log) :
          /\ log[j].pos = 0
          /\ \E k1, k2 \in DOMAIN log[j].node.kids :
                /\ log[j].node.kids[k1].sub.offset = 1
                /\ log[j].node.kids[k2].sub.offset = 2
                /\ log[j].node.kids[k1].val.tag = "Dir"
                /\ DOMAIN log[j].node.kids[k1].val.kids # {}

\* ------------------------------------------------------ collapse_layers_3
\* The context views the reducer of collapse_layers_2 received.
HandedViews ==
    UNION {{log[j].node.kids[k].sub : k \in DOMAIN log[j].node.kids} : j \in 1..Len(log)}

\* A context view of the whole store: offset 0, and as context the value
\* collapse_layers_2 cached for every element.
WholeContext ==
    [start   |-> 0,
     offset  |-> 0,
     context |-> [i \in 1..Len(elems) |->
                    [st |-> "init",
                     v  |-> log[CHOOSE j \in 1..Len(log) : log[j].pos = i - 1].out]]]

\* let mut results: Vec<Option<&A>> = repeat_with(|| None).take(len).collect()
Collapse3Begin ==
    /\ pc = "returned"
    /\ \E v \in HandedViews \cup {WholeContext} :
          /\ view' = v
          /\ results' = [i \in 1..Len(Slice(v)) |-> None]
          /\ it' = Len(Slice(v))
    /\ alg' = "context"
    /\ log' = <<>>
    /\ ret' = NoValue
    /\ pc' = "collapse3"
    /\ UNCHANGED <<expandVars, asyncVars, tainted>>

\* results.get(x - self.offset).unwrap().unwrap() and
\* self.context.get(x - self.offset).unwrap().as_ref().unwrap() succeed. The
\* subtraction is on usize: below 0 it panics, or wraps to an index that get
\* answers with None.
Readable3(x) ==
    /\ x - view.offset >= 0
    /\ x - view.offset < Len(results)
    /\ results[x - view.offset + 1].st = "init"
    /\ x - view.offset < Len(view.context)
    /\ view.context[x - view.offset + 1].st = "init"

\* results[idx - self.offset] = Some(alg_res) succeeds: idx is the position
\* in the slice, the subtraction is on usize and the indexing is checked.
Writable3(idx) ==
    /\ idx - view.offset >= 0
    /\ idx - view.offset < Len(results)

\* One iteration: every child index x becomes (cached, res), the reducer is
\* applied, and its value is stored at results[idx - self.offset].
Collapse3Step ==
    /\ pc = "collapse3"
    /\ it > 0
    /\ LET idx  == it - 1
           node == Slice(view)[it]
       IN  IF \A k \in DOMAIN node.kids : Readable3(node.kids[k])
           THEN LET arg == [tag  |-> node.tag,
                            kids |-> [k \in DOMAIN node.kids |->
                                        [cached |-> view.context[node.kids[k] - view.offset + 1].v,
                                         res    |-> results[node.kids[k] - view.offset + 1].v]]]
                    out == PairLayer(arg)
                IN  IF Writable3(idx)
                    THEN /\ results' = [results EXCEPT
                                          ![idx - view.offset + 1] = [st |-> "init", v |-> out]]
                         /\ log' = Append(log, [pos |-> idx + view.start, node |-> arg, out |-> out])
                         /\ it' = it - 1
                         /\ UNCHANGED pc
                    ELSE /\ pc' = "panicked3"
                         /\ log' = Append(log, [pos |-> idx + view.start, node |-> arg, out |-> out])
                         /\ UNCHANGED <<results, it>>
           ELSE /\ pc' = "panicked3"
                /\ UNCHANGED <<results, log, it>>
    /\ UNCHANGED <<expandVars, asyncVars, alg, view, tainted, ret>>

\* results.get(ArenaIndex::head().0).unwrap().unwrap()
Collapse3Take ==
    /\ pc = "collapse3"
    /\ it = 0
    /\ IF results # <<>> /\ results[1].st = "init"
       THEN /\ ret' = [kind |-> "value", v |-> results[1].v]
            /\ pc' = "returned3"
       ELSE /\ pc' = "panicked3"
            /\ UNCHANGED ret
    /\ UNCHANGED <<expandVars, asyncVars, alg, view, results, it, log, tainted>>

Collapse3Next == Collapse2Next \/ Collapse3Begin \/ Collapse3Step \/ Collapse3Take

SpecCollapse3 == CollapseInit /\ [][Collapse3Next]_vars

\* What the reducer received at every invocation so far: for the child index
\* x, the context value stored for x and the value reduced for x.
ReducerGotContext ==
    \A j \in 1..Len(log) :
        \A k \in DOMAIN elems[log[j].pos + 1].kids :
            LET x   == elems[log[j].pos + 1].kids[k]
                got == log[j].node.kids[k]
            IN  /\ got.cached = view.context[x - view.offset + 1].v
                /\ \E j2 \in 1..(j - 1) : log[j2].pos = x /\ log[j2].out = got.res

\* C11: collapse_layers_3 on a context view of any offset, the views that
\* collapse_layers_2 hands to its reducer included, does not fail, and
\* returns the value reduced for the first element of the view, the reducer
\* having received for every child index x the context value stored for x
\* and the value reduced for x.
C11_ContextCollapse ==
    /\ pc # "panicked3"
    /\ pc \in {"collapse3", "returned3"} => ReducerGotContext
    /\ pc = "returned3" =>
          \E j \in 1..Len(log) : log[j].pos = view.start /\ ret.v = log[j].out

\* The same, for the view of offset 0 alone.
C11_OffsetZero ==
    (pc \in {"collapse3", "returned3", "panicked3"} /\ view.offset = 0) =>
        C11_ContextCollapse

C11_OffsetZeroWitness ==
    /\ pc = "returned3"
    /\ view.offset = 0
    /\ Len(elems) = 3
    /\ DOMAIN ret.v.kids # {}

\* ------------------------------------------------------------------- head
\* The fault of a view that keeps offset 0 for a slice that starts at idx.
HeadViewNoOffset(idx) == [start |-> idx, offset |-> 0]

\* RecursiveTreeRefWithOffset { recursive_tree: RecursiveTreeRef { elems:
\* &self.elems[idx.0..] }, offset: idx.0 }
HeadView(idx) == [start |-> idx, offset |-> idx]

\* head(): let head = &self.elems[0]; head.map_layer(|idx| view at idx). The
\* slicing &self.elems[idx.0..] takes a reference and reads no element; it
\* panics for an index past the end of the store.
HeadCall ==
    /\ pc = "built"
    /\ elems # <<>>
    /\ LET head == elems[1]
       IN  IF \A k \in DOMAIN head.kids : head.kids[k] <= Len(elems)
           THEN /\ ret' = [kind |-> "layer",
                           v    |-> [tag  |-> head.tag,
                                     kids |-> [k \in DOMAIN head.kids |-> HeadView(head.kids[k])]]]
                /\ pc' = "headed"
           ELSE /\ pc' = "panicked"
                /\ UNCHANGED ret
    /\ UNCHANGED <<expandVars, asyncVars, alg, view, results, it, log, tainted>>

HeadNext == ExpandStep \/ ExpandReturn \/ HeadCall

SpecHead == ExpandInit /\ [][HeadNext]_vars

\* The layer returned is that of element 0, and the view in the place of
\* child index c has the suffix of the store from position c as its slice
\* and c as its offset.
HeadIsRootOverViews ==
    pc = "headed" =>
        /\ ret.kind = "layer"
        /\ ret.v.tag = elems[1].tag
        /\ DOMAIN ret.v.kids = DOMAIN elems[1].kids
        /\ \A k \in DOMAIN elems[1].kids :
              LET c == elems[1].kids[k]
              IN  /\ ret.v.kids[k].offset = c
                  /\ Len(Slice(ret.v.kids[k])) = Len(elems) - c
                  /\ \A i \in 1..(Len(elems) - c) : Slice(ret.v.kids[k])[i] = elems[c + i]

\* C12: head on a store returns the layer of element 0 with every child
\* index c replaced by the view of the suffix of the store from position c
\* with offset c. The call does not fail on a store made by expand, it
\* invokes no reducer and fills no scratch array (the log of reducer calls
\* and the scratch stay as they were), its result is determined by element 0
\* and the length of the store alone, and it leaves the store unchanged.
C12_HeadFrame ==
    /\ [](HeadIsRootOverViews /\ pc # "panicked")
    /\ [][pc' = "headed" =>
            /\ elems' = elems
            /\ log' = log
            /\ results' = results
            /\ tainted' = tainted]_vars

C12_Witness ==
    /\ pc = "headed"
    /\ Len(elems) = 4
    /\ \E k1, k2 \in DOMAIN ret.v.kids :
          /\ ret.v.kids[k1] = [start |-> 1, offset |-> 1]
          /\ ret.v.kids[k2] = [start |-> 2, offset |-> 2]
    /\ elems[3].tag = "Dir" /\ DOMAIN elems[3].kids # {}

\* ------------------------------------------------- expand, a second time
\* The caller keeps the store of the first call and calls expand_layers
\* again with the same seed and the same generator: a new frontier with the
\* seed, a new empty elems. Every call of the generator builds its layer
\* anew, so that the HashMap of a Dir is iterated in an order of its own in
\* each run.
ExpandAgain ==
    /\ pc = "built"
    /\ ret = NoValue
    /\ ret' = [kind |-> "store", v |-> elems]
    /\ frontier' = <<seedOf[1]>>
    /\ enq' = <<seedOf[1]>>
    /\ elems' = <<>>
    /\ seedOf' = <<>>
    /\ calls' = <<>>
    /\ pc' = "expand"
    /\ UNCHANGED <<gen, asyncVars, alg, view, results, it, log, tainted>>

TwoRunsNext == ExpandStep \/ ExpandReturn \/ ExpandAgain

SpecTwoRuns == ExpandInit /\ [][TwoRunsNext]_vars

\* C13: two runs of expand_layers with the same seed and the same pure
\* generator produce stores of equal length whose elements are equal
\* position by position, child indices included.
C13_Determinism ==
    (pc = "built" /\ ret.kind = "store") =>
        /\ Len(elems) = Len(ret.v)
        /\ \A i \in 1..Len(elems) : elems[i] = ret.v[i]

\* ------------------------------------------- expand, async: all or nothing
\* What the caller can see of a build: nothing while it runs, the error once
\* it has failed, nothing once it is dropped, and the store only once every
\* generation step has succeeded and the frontier is empty.
StoreOnlyWhenComplete ==
    /\ pc \in {"loop", "await", "cancelled"} => outcome = NoOutcome
    /\ pc = "failed" => outcome.kind = "err"
    /\ outcome.kind = "ok" =>
          /\ pc = "resolved"
          /\ frontier = <<>>
          /\ pending = {}
          /\ Failed = {}
          /\ Len(yields) = Len(calls)
          /\ Len(outcome.store) = Len(calls)
          /\ outcome.store = elems
    /\ pc \in {"cancelled", "failed"} => elems = <<>> /\ frontier = <<>>

\* C14: expand_layers_async is all-or-nothing: a store is handed to the
\* caller only in the state where the frontier is empty and every generation
\* step has succeeded; when the build is dropped at its await or fails, the
\* elements and the frontier built so far are discarded and no store is
\* handed out then or later.
C14_AllOrNothing ==
    /\ []StoreOnlyWhenComplete
    /\ [][/\ outcome'.kind = "ok" /\ outcome.kind # "ok" => frontier = <<>> /\ pc = "loop"
          /\ pc \in {"cancelled", "failed"} => outcome' = outcome /\ elems' = elems]_vars

C14_Witness ==
    /\ pc = "cancelled"
    /\ Len(yields) = 2
    /\ Len(calls) = 3
    /\ Len(enq) > 3
    /\ elems = <<>>
    /\ outcome = NoOutcome

\* ------------------------------------------- collapse, owning: the scratch
\* The invariant of a store: every child index is greater than the position
\* of its element, lies in the store, and is held by one slot only.
StoreInvariant(store) ==
    ChildAfterParent(store) /\ InBounds(store) /\ NoSharing(store)

\* The positions already reduced that hold the child index c.
ParentsDone(c) ==
    {i \in it..(Len(elems) - 1) :
        \E k \in DOMAIN elems[i + 1].kids : elems[i + 1].kids[k] = c}

\* Where every slot stands while the scan is at position it: not yet written
\* below it; from it on written, and moved out exactly when the element
\* that references it has been reduced (or, for slot 0, when the call has
\* taken it); no slot was read without a value in it.
SlotsInStep ==
    /\ ~tainted
    /\ pc # "crashed"
    /\ Len(results) = Len(elems)
    /\ \A s \in 0..(Len(results) - 1) :
          /\ s < it => results[s + 1].st = "uninit"
          /\ s >= it =>
                results[s + 1].st =
                    IF ParentsDone(s) # {} \/ (s = 0 /\ pc = "returned")
                    THEN "moved" ELSE "init"

\* What a step does to a slot: it writes slot s only when position s is
\* reduced and the slot has no value yet, and it moves a value out of slot
\* s only when the slot holds one and the element reduced holds the index s,
\* or the scan is over and s is 0; a slot moved out of stays so.
SlotStep ==
    \A s \in 0..(Len(results) - 1) :
        /\ (s = it - 1 /\ pc' = "collapse") =>
              results[s + 1].st = "uninit" /\ results'[s + 1].st = "init"
        /\ results'[s + 1].st # results[s + 1].st =>
              \/ /\ s = it - 1
                 /\ results[s + 1].st = "uninit"
                 /\ results'[s + 1].st = "init"
              \/ /\ results[s + 1].st = "init"
                 /\ results'[s + 1].st = "moved"
                 /\ IF it > 0
                    THEN \E k \in DOMAIN elems[it].kids : elems[it].kids[k] = s
                    ELSE s = 0

\* C15: during the owning collapse_layers on a store that satisfies the
\* invariant, every scratch slot is written exactly once, when its own
\* position is reduced; it is consumed at most once, by the one element
\* that references it or by the final take of slot 0; and it is never read
\* before it has been written.
C15_ScratchDiscipline ==
    /\ []((StoreInvariant(elems) /\ pc \in {"collapse", "returned", "crashed"}) => SlotsInStep)
    /\ [][(StoreInvariant(elems) /\ pc = "collapse") => SlotStep]_vars

C15_Witness ==
    /\ pc = "returned"
    /\ StoreInvariant(elems)
    /\ Len(elems) = 3
    /\ \E k1, k2 \in DOMAIN elems[1].kids :
          elems[1].kids[k1] = 1 /\ elems[1].kids[k2] = 2
    /\ \A s \in 1..3 : results[s].st = "moved"
    /\ ~tainted

\* ------------------------------------------ collapse of an offset view
\* The caller collapses one of the views head returned for the children of
\* the root.
OffsetCall ==
    /\ pc = "headed"
    /\ \E k \in DOMAIN ret.v.kids : \E a \in Reducers : RefBegin(ret.v.kids[k], a)
    /\ UNCHANGED <<expandVars, asyncVars>>

OffsetNext == ExpandStep \/ ExpandReturn \/ HeadCall \/ OffsetCall \/ RefStep \/ RefTake

SpecOffset == ExpandInit /\ [][OffsetNext]_vars

\* The positions of the store already reduced by the scan of the view.
Scanned == (view.start + it)..(Len(elems) - 1)

\* The slot of the absolute index x is slot x - offset: every slot from the
\* position of the scan on holds, or held until the element that holds its
\* index was reduced, the fold of the subtree at slot + offset.
SlotIsIndexMinusOffset ==
    /\ Len(results) = Len(elems) - view.offset
    /\ \A x \in Scanned :
          /\ x - view.offset >= 0
          /\ x - view.offset < Len(results)
          /\ results[x - view.offset + 1].st \in {"init", "moved"}
          /\ results[x - view.offset + 1].v = RefFold(elems, x, alg)
          /\ \A k \in DOMAIN elems[x + 1].kids :
                /\ elems[x + 1].kids[k] - view.offset \in 0..(Len(results) - 1)
                /\ results[elems[x + 1].kids[k] - view.offset + 1].st = "moved"

\* C16: for a store made by expand_layers and a child index c of its root,
\* collapse_layers on the view of the elements from position c on with
\* offset c takes every absolute child index x from slot x - c, reads no
\* slot outside the scratch array and none without a value, and returns the
\* value of the recursive fold of the subtree at c.
C16_OffsetCollapseIsFold ==
    pc \in {"collapse_ref", "returned", "crashed"} =>
        /\ view.offset = view.start
        /\ \E k \in DOMAIN elems[1].kids : elems[1].kids[k] = view.offset
        /\ ~tainted
        /\ pc # "crashed"
        /\ SlotIsIndexMinusOffset
        /\ pc = "returned" =>
              ret = [kind |-> "value", v |-> RefFold(elems, view.start, alg)]

C16_Witness ==
    /\ pc = "returned"
    /\ view = [start |-> 1, offset |-> 1]
    /\ Len(elems) = 4
    /\ alg = "term"
    /\ \E k \in DOMAIN elems[2].kids : elems[2].kids[k] = 3
    /\ ret.v.tag = "Dir"
    /\ \E k \in DOMAIN ret.v.kids : ret.v.kids[k] = RefFold(elems, 3, alg)

\* --------------------------------------------------- the scratch at the end
\* C17: at the end of a collapse_layers call, on a whole store or on an
\* offset view of a substructure, the scratch array is drained: every slot
\* written during the call has been consumed, by the element that holds its
\* index or by the final take of slot 0, and no reduced value is left in a
\* slot.
C17_ScratchDrained ==
    pc = "returned" => \A s \in 1..Len(results) : results[s].st = "moved"

\* ------------------------------------------------------ expand: termination
\* expand_layers is one sequential loop on one thread: as long as a step is
\* possible the next step is taken.
SpecExpandFair == SpecExpand /\ WF_vars(ExpandNext)

\* The slots of the output that hold an index not yet in the output.
Outstanding == {r \in ChildRefs(elems) : ChildAt(elems, r) >= Len(elems)}

\* Every index handed out and not yet in the output stands for one seed on
\* the frontier: index x for the seed at place x - Len(elems) of the
\* frontier, which is the child seed the index replaced; no two slots hold
\* the same such index, and the frontier holds no other seed.
OutstandingOnFrontier ==
    /\ \A r \in Outstanding :
          LET p == ChildAt(elems, r) - Len(elems) + 1
          IN  /\ p \in 1..Len(frontier)
              /\ frontier[p] = gen[seedOf[r[1] + 1]].kids[r[2]]
    /\ \A r1, r2 \in Outstanding :
          ChildAt(elems, r1) = ChildAt(elems, r2) => r1 = r2
    /\ elems # <<>> => Cardinality(Outstanding) = Len(frontier)
    /\ elems = <<>> => frontier = <<enq[1]>>

\* On return the generator has been invoked once per node of the unfolding
\* of the seed and the output has one element per node.
ReturnedAll ==
    pc = "built" =>
        /\ frontier = <<>>
        /\ Len(calls) = UnfoldSize(gen, enq[1])
        /\ Len(elems) = UnfoldSize(gen, enq[1])

\* C18: for every seed whose unfolding under the generator is a finite tree
\* of n nodes, expand_layers eventually reaches the empty frontier and
\* returns; the generator has then been invoked exactly n times and the
\* output has exactly n elements; and at every step before, every index
\* handed out that is not below the length of the output corresponds to
\* exactly one seed on the frontier.
C18_Terminates ==
    /\ <>(pc = "built")
    /\ [](ReturnedAll /\ OutstandingOnFrontier)

C18_Witness ==
    /\ pc = "built"
    /\ UnfoldSize(gen, enq[1]) = MaxNodes
    /\ Len(calls) = MaxNodes
    /\ Len(elems) = MaxNodes
    /\ \E i \in 2..Len(elems) : DOMAIN elems[i].kids # {}

====
